---- MODULE Spec2Model ----
(***************************************************************************)
(* Inspection-cycle controller of src/main.3.py: CognexPerfilometro (the   *)
(* sensor link), SistemaInspeccion (the controller and the cobot socket)   *)
(* and the __main__ block.  Sockets are numbered in creation order; the    *)
(* network side of every socket is driven by the environment.              *)
(***************************************************************************)
EXTENDS Integers, Sequences, FiniteSets, TLC

\* ---------------------------------------------------------------- bounds
MaxFaults == 2        \* faults the environment may inject in one run
MaxLen == 2           \* longest profile
Step == 6

\* ------------------------------------------------------- program constants
UMBRAL_TOLERANCIA == 5          \* 0.5 mm, in tenths of a millimetre
PIEZA_DEFECTUOSA == "PIEZA_DEFECTUOSA\n"
PIEZA_BUENA == "PIEZA_BUENA\n"

\* Python's None for a profile, for the sensor object and for a socket
NoneProfile == [some |-> FALSE, val |-> <<>>]
Some(p) == [some |-> TRUE, val |-> p]
NonePerfilometro == [sock |-> 0, is_connected |-> FALSE]
NoneSocket == 0

VARIABLES
  pc,              \* position of the single thread of control
  exitCode,        \* process exit status, -1 while running
  endedBy,         \* why the process ended, "" while running
  perfil_maestro,  \* SistemaInspeccion.perfil_maestro: NoneProfile or Some(profile)
  perfilometro,    \* SistemaInspeccion.perfilometro: [sock, is_connected], sock 0 = no object
  cobot_socket,    \* SistemaInspeccion.cobot_socket: 0 (None) or a socket number
  sockets,         \* every socket created so far: [owner, open, net]
  perfil_actual,   \* local of ejecutar_ciclo_inspeccion
  iter,            \* what the current loop iteration has done so far
  faults,          \* faults injected so far
  unit             \* the call under test when one method is exercised on its own

vars == <<pc, exitCode, endedBy, perfil_maestro, perfilometro, cobot_socket,
          sockets, perfil_actual, iter, faults, unit>>

\* no method is exercised on its own: the whole program runs
NoUnit == [kind |-> "none"]

\* ---------------------------------------------------------------- profiles
\* a sample is at the reference height or one Step above it, in tenths of a
\* millimetre
Samples == {0, Step}

Profiles == UNION {[1..n -> Samples] : n \in 0..MaxLen}

\* np.loadtxt succeeds on any numeric file, an empty one included
MasterProfiles == Profiles

RECURSIVE Sum(_)
Sum(s) == IF s = <<>> THEN 0 ELSE Head(s) + Sum(Tail(s))

Abs(x) == IF x < 0 THEN -x ELSE x

Max(S) == CHOOSE x \in S : \A y \in S : y <= x

\* len * |(a[i] - mean(a)) - (m[i] - mean(m))|, exact in integers
ScaledDiff(a, m, i) ==
  Abs((Len(a) * a[i] - Sum(a)) - (Len(m) * m[i] - Sum(m)))

\* variant: no size check, numpy refuses to subtract arrays of different shapes
comparar_sin_longitud(maestro, actual, umbral) ==
  IF Len(maestro) # Len(actual) THEN "ValueError"
  ELSE IF Len(actual) = 0 THEN "ValueError"
  ELSE LET desviacion_maxima_n == Max({ScaledDiff(actual, maestro, i) : i \in 1..Len(actual)})
       IN  IF desviacion_maxima_n > Len(actual) * umbral THEN "True" ELSE "False"

\* variant: the profiles are compared without subtracting their means
comparar_sin_centrar(maestro, actual, umbral) ==
  IF Len(maestro) # Len(actual) THEN "True"
  ELSE IF Len(actual) = 0 THEN "ValueError"
  ELSE LET desviacion_maxima == Max({Abs(actual[i] - maestro[i]) : i \in 1..Len(actual)})
       IN  IF desviacion_maxima > umbral THEN "True" ELSE "False"

\* variant: a deviation equal to the tolerance is a defect
comparar_no_estricto(maestro, actual, umbral) ==
  IF Len(maestro) # Len(actual) THEN "True"
  ELSE IF Len(actual) = 0 THEN "ValueError"
  ELSE LET desviacion_maxima_n == Max({ScaledDiff(actual, maestro, i) : i \in 1..Len(actual)})
       IN  IF desviacion_maxima_n >= Len(actual) * umbral THEN "True" ELSE "False"

\* the body of comparar_perfiles for a tolerance umbral: "True" = defect,
\* "False" = good; np.max of an empty array raises ValueError
comparar(maestro, actual, umbral) ==
  IF Len(maestro) # Len(actual) THEN "True"
  ELSE IF Len(actual) = 0 THEN "ValueError"
  ELSE LET desviacion_maxima_n == Max({ScaledDiff(actual, maestro, i) : i \in 1..Len(actual)})
       IN  IF desviacion_maxima_n > Len(actual) * umbral THEN "True" ELSE "False"

\* comparar_perfiles with self.UMBRAL_TOLERANCIA = CONFIG["umbral_tolerancia_mm"]
comparar_perfiles(maestro, actual) == comparar(maestro, actual, UMBRAL_TOLERANCIA)

\* ----------------------------------------------------------------- sockets
NetStates == {"unconn", "conn", "eof", "reset"}

NewSocket(owner) == [owner |-> owner, open |-> TRUE, net |-> "unconn"]

SetNet(socks, i, n) == [socks EXCEPT ![i].net = n]

CloseSocket(socks, i) == [socks EXCEPT ![i].open = FALSE]

\* nothing done yet in this iteration of the while loop
NoIter == [signal |-> "none", requested |-> FALSE, acq |-> "none",
           perfil |-> NoneProfile, sent |-> "none", sends |-> 0,
           sendOk |-> FALSE, raised |-> "none", sensorReconn |-> FALSE,
           cobotReconn |-> FALSE]

\* ------------------------------------------------- CognexPerfilometro.connect
SensorOutcomes == {"ok", "refused", "handshake", "eof"}

\* net state of the new socket after connect()
SensorNet(so) ==
  CASE so = "ok" -> "conn"
    [] so = "refused" -> "unconn"
    [] so = "handshake" -> "conn"
    [] so = "eof" -> "eof"

\* is_connected after connect(): only a socket.error leaves it False
SensorConnected(so) == so \in {"ok", "eof"}

\* CognexPerfilometro(ip, port): a new object with a new socket
NewPerfilometro(socks, so) ==
  [obj |-> [sock |-> Len(socks) + 1, is_connected |-> SensorConnected(so)],
   socks |-> Append(socks, [NewSocket("sensor") EXCEPT !.net = SensorNet(so)])]

\* -------------------------------------------------- SistemaInspeccion.conectar
CobotOutcomes == {"ok", "refused"}

\* variant: the cobot connection is attempted even when the sensor failed
conectar_sin_retorno(socks, cobot, so, co) ==
  LET np == NewPerfilometro(socks, so) IN
  [perfilometro |-> np.obj,
   cobot_socket |-> Len(np.socks) + 1,
   sockets |-> Append(np.socks,
                 [NewSocket("cobot") EXCEPT !.net = IF co = "ok" THEN "conn" ELSE "unconn"]),
   ret |-> (np.obj.is_connected /\ co = "ok"), cobotTried |-> TRUE]

conectar(socks, cobot, so, co) ==
  LET np == NewPerfilometro(socks, so) IN
  IF ~np.obj.is_connected
  THEN [perfilometro |-> np.obj, cobot_socket |-> cobot, sockets |-> np.socks,
        ret |-> FALSE, cobotTried |-> FALSE]
  ELSE [perfilometro |-> np.obj,
        cobot_socket |-> Len(np.socks) + 1,
        sockets |-> Append(np.socks,
                      [NewSocket("cobot") EXCEPT !.net = IF co = "ok" THEN "conn" ELSE "unconn"]),
        ret |-> (co = "ok"), cobotTried |-> TRUE]

\* faults a conectar() with these outcomes costs the environment
ConnectCost(so, co) ==
  (IF so = "ok" THEN 0 ELSE 1) + (IF SensorConnected(so) /\ co # "ok" THEN 1 ELSE 0)

\* ---------------------------------------------------------------- start-up
Init ==
  /\ pc = "start"
  /\ exitCode = -1
  /\ endedBy = ""
  /\ perfil_maestro = NoneProfile
  /\ perfilometro = NonePerfilometro
  /\ cobot_socket = NoneSocket
  /\ sockets = <<>>
  /\ perfil_actual = NoneProfile
  /\ iter = NoIter
  /\ faults = 0
  /\ unit = NoUnit

LoadOutcomes == {"ok", "IOError", "ValueError"}

\* sistema = SistemaInspeccion(CONFIG): __init__ and cargar_perfil_maestro
Construct ==
  /\ pc = "start"
  /\ \E o \in LoadOutcomes :
       CASE o = "ok" ->
              /\ \E m \in MasterProfiles : perfil_maestro' = Some(m)
              /\ pc' = "check"
              /\ UNCHANGED <<exitCode, endedBy>>
         [] o = "IOError" ->
              /\ perfil_maestro' = NoneProfile
              /\ pc' = "check"
              /\ UNCHANGED <<exitCode, endedBy>>
         [] o = "ValueError" ->
              \* not an IOError: leaves __init__ and ends the process
              /\ perfil_maestro' = NoneProfile
              /\ pc' = "done"
              /\ exitCode' = 1
              /\ endedBy' = "master_unparseable"
  /\ UNCHANGED <<perfilometro, cobot_socket, sockets, perfil_actual, iter, faults, unit>>

\* variant: the start-up check of the master profile is missing
AfterCheck_sin_comprobar(pm) == "connect"

\* if sistema.perfil_maestro is None: exit()   else go on to conectar()
AfterCheck(pm) == IF pm = NoneProfile THEN "done" ELSE "connect"

CheckMaster ==
  /\ pc = "check"
  /\ IF AfterCheck(perfil_maestro) = "done"
     THEN /\ pc' = "done"
          /\ exitCode' = 0
          /\ endedBy' = "master_missing"
     ELSE /\ pc' = "connect"
          /\ UNCHANGED <<exitCode, endedBy>>
  /\ UNCHANGED <<perfil_maestro, perfilometro, cobot_socket, sockets, perfil_actual,
                 iter, faults, unit>>

\* if sistema.conectar(): ... else: logging.critical(...)
InitialConnect ==
  /\ pc = "connect"
  /\ \E so \in SensorOutcomes, co \in CobotOutcomes :
       /\ faults + ConnectCost(so, co) <= MaxFaults
       /\ LET r == conectar(sockets, cobot_socket, so, co) IN
            /\ perfilometro' = r.perfilometro
            /\ cobot_socket' = r.cobot_socket
            /\ sockets' = r.sockets
            /\ faults' = faults + ConnectCost(so, co)
            /\ IF r.ret
               THEN /\ pc' = "await"
                    /\ UNCHANGED <<exitCode, endedBy>>
               ELSE /\ pc' = "done"
                    /\ exitCode' = 0
                    /\ endedBy' = "connect_failed"
  /\ UNCHANGED <<perfil_maestro, perfil_actual, iter, unit>>

\* ------------------------------------------------------------- environment
InCycle == {"await", "closed", "acquire", "decide", "recover"}

LinkSocket(link) == IF link = "sensor" THEN perfilometro.sock ELSE cobot_socket

\* the peer of a connected socket closes it ("eof") or the connection breaks ("reset")
EnvFault ==
  /\ pc \in InCycle
  /\ faults < MaxFaults
  /\ \E link \in {"sensor", "cobot"}, kind \in {"eof", "reset"} :
       /\ LinkSocket(link) # NoneSocket
       /\ sockets[LinkSocket(link)].net = "conn"
       /\ sockets' = SetNet(sockets, LinkSocket(link), kind)
  /\ faults' = faults + 1
  /\ UNCHANGED <<pc, exitCode, endedBy, perfil_maestro, perfilometro, cobot_socket,
                 perfil_actual, iter, unit>>

\* ------------------------------------------- CognexPerfilometro.adquirir_perfil
\* what sendall can do on a socket in this net state
SendResults(net) ==
  CASE net = "conn" -> {"ok"}
    [] net = "eof" -> {"ok", "error"}
    [] net = "reset" -> {"error"}
    [] net = "unconn" -> {"error"}

\* what the receive loop and the parse can produce on a socket in this net state
Responses(net) ==
  IF net = "conn"
  THEN {"ok", "status0", "malformed", "undecodable", "timeout"}
  ELSE {"peer_closed"}

\* variant: no is_connected guard, the request is sent whatever the flag says
AcqEvents_sin_guard(obj, socks) ==
  LET net == IF obj.sock = NoneSocket \/ ~socks[obj.sock].open THEN "unconn"
             ELSE socks[obj.sock].net IN
  {[acq |-> "send_error", requested |-> FALSE, data |-> <<>>] :
       x \in SendResults(net) \ {"ok"}}
  \cup
  {[acq |-> r, requested |-> TRUE, data |-> <<>>] :
       r \in {y \in Responses(net) : "ok" \in SendResults(net) /\ y # "ok"}}
  \cup
  {[acq |-> "ok", requested |-> TRUE, data |-> p] :
       p \in {q \in Profiles : "ok" \in SendResults(net) /\ "ok" \in Responses(net)}}

\* send, receive loop and parse of one call: [acq, requested, data]; data is what
\* was parsed from the response
AcqEvents(obj, socks) ==
  IF ~obj.is_connected
  THEN {[acq |-> "not_connected", requested |-> FALSE, data |-> <<>>]}
  ELSE LET net == socks[obj.sock].net IN
       {[acq |-> "send_error", requested |-> FALSE, data |-> <<>>] :
            x \in SendResults(net) \ {"ok"}}
       \cup
       {[acq |-> r, requested |-> TRUE, data |-> <<>>] :
            r \in {y \in Responses(net) : "ok" \in SendResults(net) /\ y # "ok"}}
       \cup
       {[acq |-> "ok", requested |-> TRUE, data |-> p] :
            p \in {q \in Profiles : "ok" \in SendResults(net) /\ "ok" \in Responses(net)}}

\* variant: a failed acquisition returns the parsed data instead of None
adquirir_perfil_sin_none(obj, socks) ==
  {[acq |-> e.acq, requested |-> e.requested, perfil |-> Some(e.data)] :
       e \in AcqEvents(obj, socks)}

\* the outcomes of one call: the profile on success, None on every failure
adquirir_perfil(obj, socks) ==
  {[acq |-> e.acq, requested |-> e.requested,
    perfil |-> IF e.acq = "ok" THEN Some(e.data) ELSE NoneProfile] :
       e \in AcqEvents(obj, socks)}

\* ------------------------------------ SistemaInspeccion.ejecutar_ciclo_inspeccion
\* what recv(1024) on the cobot socket can do
RecvResults(net) ==
  CASE net = "conn" -> {"data", "timeout"}
    [] net = "eof" -> {"closed"}
    [] net = "reset" -> {"error"}
    [] net = "unconn" -> {"error"}

\* variant: a receive error leaves the loop
AfterRecv_error_sale(r) ==
  CASE r = "data" -> "acquire"
    [] r = "timeout" -> "await"
    [] r = "closed" -> "closed"
    [] r = "error" -> "finally"

\* variant: no handler for socket.timeout, the catch-all takes it
AfterRecv_sin_timeout(r) ==
  CASE r = "data" -> "acquire"
    [] r = "timeout" -> "recover"
    [] r = "closed" -> "closed"
    [] r = "error" -> "recover"

\* variant: the timeout handler falls through to the acquisition
AfterRecv_timeout_adquiere(r) ==
  CASE r = "data" -> "acquire"
    [] r = "timeout" -> "acquire"
    [] r = "closed" -> "closed"
    [] r = "error" -> "recover"

\* where the loop goes after recv
AfterRecv(r) ==
  CASE r = "data" -> "acquire"
    [] r = "timeout" -> "await"
    [] r = "closed" -> "closed"
    [] r = "error" -> "recover"

\* data = self.cobot_socket.recv(1024), with the handlers of its exceptions
AwaitSignal ==
  /\ pc = "await"
  /\ \E r \in RecvResults(sockets[cobot_socket].net) :
       /\ iter' = [NoIter EXCEPT !.signal = r,
                                 !.raised = IF AfterRecv(r) \in {"await", "acquire", "closed"}
                                           THEN "none" ELSE "socket.error"]
       /\ pc' = AfterRecv(r)
  /\ UNCHANGED <<exitCode, endedBy, perfil_maestro, perfilometro, cobot_socket, sockets,
                 perfil_actual, faults, unit>>

\* if not data: sleep(5); self.conectar_cobot(); continue
\* SistemaInspeccion has no method conectar_cobot: the call raises AttributeError
ReconnectCobot ==
  /\ pc = "closed"
  /\ iter' = [iter EXCEPT !.raised = "AttributeError"]
  /\ pc' = "recover"
  /\ UNCHANGED <<exitCode, endedBy, perfil_maestro, perfilometro, cobot_socket, sockets,
                 perfil_actual, faults, unit>>

\* perfil_actual = self.perfilometro.adquirir_perfil()
\* a success response without samples is an anomaly of the device: it counts as a fault
AcquireCost(a) == IF a.acq = "ok" /\ a.perfil = Some(<<>>) THEN 1 ELSE 0

Acquire ==
  /\ pc = "acquire"
  /\ \E a \in adquirir_perfil(perfilometro, sockets) :
       /\ faults + AcquireCost(a) <= MaxFaults
       /\ perfil_actual' = a.perfil
       /\ iter' = [iter EXCEPT !.acq = a.acq, !.requested = a.requested,
                                !.perfil = a.perfil]
       /\ faults' = faults + AcquireCost(a)
  /\ pc' = "decide"
  /\ UNCHANGED <<exitCode, endedBy, perfil_maestro, perfilometro, cobot_socket, sockets, unit>>

\* variant: the two branches of `if defecto` are swapped
Token_invertido(defecto) == IF defecto THEN PIEZA_BUENA ELSE PIEZA_DEFECTUOSA

\* the token the loop sends for a comparison result
Token(defecto) == IF defecto THEN PIEZA_DEFECTUOSA ELSE PIEZA_BUENA

\* variant: the socket.error of sendall is not caught
enviar_comando_cobot_sin_try(it, comando, res) ==
  [iter |-> [it EXCEPT !.sent = comando, !.sends = @ + 1, !.sendOk = (res = "ok"),
                       !.raised = IF res = "ok" THEN "none" ELSE "socket.error"],
   raised |-> (res # "ok")]

\* enviar_comando_cobot: a socket.error is logged and swallowed
enviar_comando_cobot(it, comando, res) ==
  [iter |-> [it EXCEPT !.sent = comando, !.sends = @ + 1, !.sendOk = (res = "ok")],
   raised |-> FALSE]

\* if perfil_actual is not None: compare and send; else: log
Decide ==
  /\ pc = "decide"
  /\ IF perfil_actual.some
     THEN LET defecto == comparar_perfiles(perfil_maestro.val, perfil_actual.val) IN
          IF defecto = "ValueError"
          THEN /\ iter' = [iter EXCEPT !.raised = "ValueError"]
               /\ pc' = "recover"
          ELSE \E res \in SendResults(sockets[cobot_socket].net) :
                 LET e == enviar_comando_cobot(iter, Token(defecto = "True"), res) IN
                   /\ iter' = e.iter
                   /\ pc' = IF e.raised THEN "recover" ELSE "await"
     ELSE /\ iter' = iter
          /\ pc' = "await"
  /\ UNCHANGED <<exitCode, endedBy, perfil_maestro, perfilometro, cobot_socket, sockets,
                 perfil_actual, faults, unit>>

\* except Exception: sleep(10); self.conectar()
Recover ==
  /\ pc = "recover"
  /\ \E so \in SensorOutcomes, co \in CobotOutcomes :
       /\ faults + ConnectCost(so, co) <= MaxFaults
       /\ LET r == conectar(sockets, cobot_socket, so, co) IN
            /\ perfilometro' = r.perfilometro
            /\ cobot_socket' = r.cobot_socket
            /\ sockets' = r.sockets
            /\ iter' = [iter EXCEPT !.sensorReconn = TRUE, !.cobotReconn = r.cobotTried]
       /\ faults' = faults + ConnectCost(so, co)
  /\ pc' = "await"
  /\ UNCHANGED <<exitCode, endedBy, perfil_maestro, perfil_actual, unit>>

\* conectar() rebinds self.perfilometro and self.cobot_socket without closing
\* what they held; the interpreter may finalize the unreferenced sockets,
\* which closes them, at a moment of its choosing or never
Unreferenced(i) == i # perfilometro.sock /\ i # cobot_socket

Finalize ==
  /\ pc # "done"
  /\ \E i \in 1..Len(sockets) : sockets[i].open /\ Unreferenced(i)
  /\ sockets' = [i \in 1..Len(sockets) |->
                   IF Unreferenced(i) THEN [sockets[i] EXCEPT !.open = FALSE]
                   ELSE sockets[i]]
  /\ UNCHANGED <<pc, exitCode, endedBy, perfil_maestro, perfilometro, cobot_socket,
                 perfil_actual, iter, faults, unit>>

\* ------------------------------------------------------------------ shutdown
\* KeyboardInterrupt inside the try block of __main__: not an Exception, so the
\* loop's handlers let it through to `except KeyboardInterrupt`
Interrupt ==
  /\ pc \in InCycle
  /\ pc' = "finally"
  /\ endedBy' = "interrupt"
  /\ UNCHANGED <<exitCode, perfil_maestro, perfilometro, cobot_socket, sockets,
                 perfil_actual, iter, faults, unit>>

\* KeyboardInterrupt before the try block: nothing catches it
InterruptStartup ==
  /\ pc \in {"start", "check", "connect"}
  /\ pc' = "done"
  /\ exitCode' = 130
  /\ endedBy' = "interrupt_startup"
  /\ UNCHANGED <<perfil_maestro, perfilometro, cobot_socket, sockets, perfil_actual,
                 iter, faults, unit>>

\* variant: the socket is closed but is_connected keeps its value
close_sin_estado(obj, socks) ==
  IF obj.sock # NoneSocket
  THEN [obj |-> obj, socks |-> CloseSocket(socks, obj.sock)]
  ELSE [obj |-> obj, socks |-> socks]

\* CognexPerfilometro.close
close(obj, socks) ==
  IF obj.sock # NoneSocket
  THEN [obj |-> [obj EXCEPT !.is_connected = FALSE], socks |-> CloseSocket(socks, obj.sock)]
  ELSE [obj |-> obj, socks |-> socks]

\* SistemaInspeccion.desconectar_todo: the sockets afterwards
desconectar_todo(obj, cobot, socks) ==
  LET c == IF obj.sock # NoneSocket THEN close(obj, socks)
           ELSE [obj |-> obj, socks |-> socks]
  IN  [obj |-> c.obj,
       socks |-> IF cobot # NoneSocket THEN CloseSocket(c.socks, cobot) ELSE c.socks]

\* finally: sistema.desconectar_todo(); the module ends
Finally ==
  /\ pc = "finally"
  /\ LET d == desconectar_todo(perfilometro, cobot_socket, sockets) IN
       /\ perfilometro' = d.obj
       /\ sockets' = d.socks
  /\ pc' = "done"
  /\ exitCode' = 0
  /\ UNCHANGED <<endedBy, perfil_maestro, cobot_socket, perfil_actual, iter, faults, unit>>

Next ==
  \/ Construct
  \/ CheckMaster
  \/ InitialConnect
  \/ EnvFault
  \/ AwaitSignal
  \/ ReconnectCobot
  \/ Acquire
  \/ Decide
  \/ Recover
  \/ Finalize
  \/ Interrupt
  \/ InterruptStartup
  \/ Finally

Spec == Init /\ [][Next]_vars

\* the single thread of control always takes its next step; the environment and
\* the operator are not obliged to act
FairSpec ==
  /\ Init
  /\ [][Next]_vars
  /\ WF_vars(Construct)
  /\ WF_vars(CheckMaster)
  /\ WF_vars(InitialConnect)
  /\ WF_vars(AwaitSignal)
  /\ WF_vars(ReconnectCobot)
  /\ WF_vars(Acquire)
  /\ WF_vars(Decide)
  /\ WF_vars(Recover)
  /\ WF_vars(Finally)

\* ------------------------------------------ comparar_perfiles on its own
\* the program's variables while one method is exercised on its own
ctl == <<pc, exitCode, endedBy, perfil_maestro, perfilometro, cobot_socket,
         sockets, perfil_actual, iter, faults>>

\* the program has not started
Idle ==
  /\ pc = "start"
  /\ exitCode = -1
  /\ endedBy = ""
  /\ perfil_maestro = NoneProfile
  /\ perfilometro = NonePerfilometro
  /\ cobot_socket = NoneSocket
  /\ sockets = <<>>
  /\ perfil_actual = NoneProfile
  /\ iter = NoIter
  /\ faults = 0

\* tolerances tried: zero, the configured one, and one a deviation can equal
Tolerances == {0, UMBRAL_TOLERANCIA, Step}

\* uniform offsets tried
Offsets == {-Step, 1, Step}

\* the profile p with c added to every sample
Shift(p, c) == [i \in 1..Len(p) |-> p[i] + c]

CmpInit ==
  /\ Idle
  /\ \E m \in Profiles, a \in Profiles, t \in Tolerances, c \in Offsets :
       unit = [kind |-> "cmp", phase |-> "in", maestro |-> m, actual |-> a,
               umbral |-> t, c |-> c, res |-> "none", resActual |-> "none",
               resMaestro |-> "none"]

\* one call on the inputs, one with the offset added to the current profile, one
\* with the offset added to the master profile
CmpEvaluate ==
  /\ unit.kind = "cmp"
  /\ unit.phase = "in"
  /\ unit' = [unit EXCEPT
                !.phase = "out",
                !.res = comparar(unit.maestro, unit.actual, unit.umbral),
                !.resActual = comparar(unit.maestro, Shift(unit.actual, unit.c), unit.umbral),
                !.resMaestro = comparar(Shift(unit.maestro, unit.c), unit.actual, unit.umbral)]
  /\ UNCHANGED ctl

CmpNext == CmpEvaluate

CmpSpec == CmpInit /\ [][CmpNext]_vars

\* --------------------------- the receive loop of adquirir_perfil on its own
MaxTokens == 2        \* most sample tokens in one response

Digits == {"0", "1", "2"}

\* characters str.strip() removes
Whitespace == {"\t", "\n"}

\* sample tokens the sensor may put on the wire: numbers, a non-numeric token,
\* an empty token and a byte that is not UTF-8
WireTokens == {<<"2">>, <<"1", "0">>, <<"1", "2">>, <<"x">>, <<"?">>, <<>>}

\* status tokens: success, failure, and no response at all
WireStatus == {<<"1">>, <<"0">>, <<>>}

RECURSIVE Wire(_)
\* the tokens of the response, each one preceded by a tabulator
Wire(tokens) ==
  IF tokens = <<>> THEN <<>> ELSE <<"\t">> \o Head(tokens) \o Wire(Tail(tokens))

RECURSIVE StripLeft(_)
StripLeft(s) ==
  IF s # <<>> /\ Head(s) \in Whitespace THEN StripLeft(Tail(s)) ELSE s

RECURSIVE StripRight(_)
StripRight(s) ==
  IF s # <<>> /\ s[Len(s)] \in Whitespace THEN StripRight(SubSeq(s, 1, Len(s) - 1)) ELSE s

\* str.strip()
Strip(s) == StripRight(StripLeft(s))

\* respuesta_completa.strip().endswith(('0', '1'))
EndsWithStatus(s) == Strip(s) # <<>> /\ Strip(s)[Len(Strip(s))] \in {"0", "1"}

RECURSIVE Split(_)
\* str.split('\t')
Split(s) ==
  IF \A i \in 1..Len(s) : s[i] # "\t" THEN <<s>>
  ELSE LET i == CHOOSE k \in 1..Len(s) : s[k] = "\t" /\ \A j \in 1..(k - 1) : s[j] # "\t"
       IN  <<SubSeq(s, 1, i - 1)>> \o Split(SubSeq(s, i + 1, Len(s)))

\* float() accepts the token
IsNumber(tok) == tok # <<>> /\ \A i \in 1..Len(tok) : tok[i] \in Digits

DigitVal(c) == CASE c = "0" -> 0 [] c = "1" -> 1 [] c = "2" -> 2

RECURSIVE Value(_)
\* float() of a token of digits
Value(tok) ==
  IF tok = <<>> THEN 0 ELSE 10 * Value(SubSeq(tok, 1, Len(tok) - 1)) + DigitVal(tok[Len(tok)])

\* lines 92-107: strip, split, status check and conversion of the samples
Parse(respuesta_completa) ==
  LET partes == Split(Strip(respuesta_completa)) IN
  IF partes[1] = <<"1">>
  THEN IF \A i \in 2..Len(partes) : IsNumber(partes[i])
       THEN [outcome |-> "ok",
             perfil |-> Some([i \in 1..(Len(partes) - 1) |-> Value(partes[i + 1])])]
       ELSE [outcome |-> "ValueError", perfil |-> NoneProfile]
  ELSE [outcome |-> "status", perfil |-> NoneProfile]

\* variant: only socket.timeout is handled, there is no `except Exception`
Handled_solo_timeout(exc) == exc = "socket.timeout"

\* the handlers of lines 109-114 take socket.timeout and every Exception
Handled(exc) == exc \in {"socket.timeout", "ValueError", "UnicodeDecodeError"}

\* how a call that got as far as this outcome ends: the value returned, or the
\* exception leaving adquirir_perfil
Return(u, r) ==
  IF r.outcome \in {"ok", "status"} \/ Handled(r.outcome)
  THEN [u EXCEPT !.phase = "done", !.outcome = r.outcome, !.perfil = r.perfil]
  ELSE [u EXCEPT !.phase = "done", !.outcome = r.outcome, !.perfil = NoneProfile,
                 !.raised = TRUE]

\* the request has been sent on a connected socket; the sensor answers with a
\* status token and sample tokens, then stays silent or closes
RecvInit ==
  /\ Idle
  /\ \E st \in WireStatus, n \in 0..MaxTokens, term \in {<<>>, <<"\n">>},
        after \in {"timeout", "eof"} :
       \E toks \in [1..n -> WireTokens] :
         /\ (st = <<>> => n = 0 /\ term = <<>>)
         /\ unit = [kind |-> "recv", phase |-> "recv", status |-> st, tokens |-> toks,
                    resp |-> st \o Wire(toks) \o term, after |-> after,
                    pos |-> 0, acc |-> <<>>, outcome |-> "none",
                    perfil |-> NoneProfile, raised |-> FALSE]

\* one pass of the while loop in which recv returns the next k characters
RecvChunk ==
  /\ unit.kind = "recv"
  /\ unit.phase = "recv"
  /\ \E k \in 1..(Len(unit.resp) - unit.pos) :
       LET data == SubSeq(unit.resp, unit.pos + 1, unit.pos + k)
           u == [unit EXCEPT !.pos = @ + k, !.acc = @ \o data]
       IN  unit' = IF \E i \in 1..k : data[i] = "?"
                   THEN Return([unit EXCEPT !.pos = @ + k],
                               [outcome |-> "UnicodeDecodeError", perfil |-> NoneProfile])
                   ELSE IF EndsWithStatus(u.acc) THEN Return(u, Parse(u.acc))
                   ELSE u
  /\ UNCHANGED ctl

\* one pass of the while loop after the whole response was read: recv times
\* out, or returns '' because the sensor closed
RecvEnd ==
  /\ unit.kind = "recv"
  /\ unit.phase = "recv"
  /\ unit.pos = Len(unit.resp)
  /\ unit' = IF unit.after = "timeout"
              THEN Return(unit, [outcome |-> "socket.timeout", perfil |-> NoneProfile])
              ELSE Return(unit, Parse(unit.acc))
  /\ UNCHANGED ctl

RecvNext == RecvChunk \/ RecvEnd

RecvSpec == RecvInit /\ [][RecvNext]_vars

\* ------------------------------- the operations of the two links on their own
MaxSockets == 3       \* most sockets created while the operations are exercised

\* the sensor object, the cobot socket and the sockets, as one value
Links == [obj |-> perfilometro, cobot |-> cobot_socket, socks |-> sockets]

\* the operation just called, the one before it, the links before the call and
\* what an acquisition returned
LinkUnit(op, pre, a) ==
  [kind |-> "link", last |-> op, prev |-> unit.last, pre |-> pre,
   acq |-> a.acq, requested |-> a.requested, perfil |-> a.perfil]

NoAcq == [acq |-> "none", requested |-> FALSE, perfil |-> NoneProfile]

\* a SistemaInspeccion whose links were never connected
LinkInit ==
  /\ Idle
  /\ unit = [kind |-> "link", last |-> "none", prev |-> "none",
             pre |-> [obj |-> NonePerfilometro, cobot |-> NoneSocket, socks |-> <<>>],
             acq |-> "none", requested |-> FALSE, perfil |-> NoneProfile]

\* sistema.conectar()
L_Conectar ==
  /\ unit.kind = "link"
  /\ Len(sockets) + 2 <= MaxSockets
  /\ \E so \in SensorOutcomes, co \in CobotOutcomes :
       LET c == conectar(sockets, cobot_socket, so, co) IN
         /\ perfilometro' = c.perfilometro
         /\ cobot_socket' = c.cobot_socket
         /\ sockets' = c.sockets
  /\ unit' = LinkUnit("conectar", Links, NoAcq)
  /\ UNCHANGED <<pc, exitCode, endedBy, perfil_maestro, perfil_actual, iter, faults>>

\* perfilometro.close(), also on an object whose socket is still None
L_Close ==
  /\ unit.kind = "link"
  /\ LET c == close(perfilometro, sockets) IN
       /\ perfilometro' = c.obj
       /\ sockets' = c.socks
  /\ unit' = LinkUnit("close", Links, NoAcq)
  /\ UNCHANGED <<pc, exitCode, endedBy, perfil_maestro, cobot_socket, perfil_actual,
                 iter, faults>>

\* sistema.desconectar_todo()
L_Desconectar ==
  /\ unit.kind = "link"
  /\ LET d == desconectar_todo(perfilometro, cobot_socket, sockets) IN
       /\ perfilometro' = d.obj
       /\ sockets' = d.socks
  /\ unit' = LinkUnit("desconectar_todo", Links, NoAcq)
  /\ UNCHANGED <<pc, exitCode, endedBy, perfil_maestro, cobot_socket, perfil_actual,
                 iter, faults>>

\* perfilometro.adquirir_perfil()
L_Adquirir ==
  /\ unit.kind = "link"
  /\ \E a \in adquirir_perfil(perfilometro, sockets) :
       unit' = LinkUnit("adquirir_perfil", Links, a)
  /\ UNCHANGED ctl

\* the peer of an open, connected socket closes it or the connection breaks
L_Fault ==
  /\ unit.kind = "link"
  /\ \E i \in 1..Len(sockets), kind \in {"eof", "reset"} :
       /\ sockets[i].open
       /\ sockets[i].net = "conn"
       /\ sockets' = SetNet(sockets, i, kind)
  /\ unit' = LinkUnit("fault", Links, NoAcq)
  /\ UNCHANGED <<pc, exitCode, endedBy, perfil_maestro, perfilometro, cobot_socket,
                 perfil_actual, iter, faults>>

LinkNext == L_Conectar \/ L_Close \/ L_Desconectar \/ L_Adquirir \/ L_Fault

LinkSpec == LinkInit /\ [][LinkNext]_vars

TypeOK ==
  /\ pc \in {"start", "check", "connect", "finally", "done"} \cup InCycle
  /\ exitCode \in {-1, 0, 1, 130}
  /\ faults \in 0..MaxFaults
  /\ cobot_socket \in 0..Len(sockets)
  /\ perfilometro.sock \in 0..Len(sockets)

\* ------------------------------------------------------------------- claims
Ended == pc \in {"finally", "done"}

SendFailed == iter.sent # "none" /\ ~iter.sendOk

AcqFailed == iter.acq \notin {"none", "ok"}

\* C1: when recv on the cobot socket returns zero bytes, the recovery reconnects
\* the cobot link only: on return to awaiting the signal the sensor object and
\* its socket are the ones from before, and the cobot link was reconnected.
C1_PeerClosedReconnectsOnlyCobot ==
  [][(iter.signal = "closed" /\ pc # "await" /\ pc' = "await")
       => /\ perfilometro' = perfilometro
          /\ sockets'[perfilometro.sock] = sockets[perfilometro.sock]
          /\ iter'.cobotReconn]_vars

\* C2 as stated: after a failed send of the verdict, both links have been
\* reconnected by the time the controller next awaits the signal.
C2_SendErrorReconnectsBoth ==
  (pc = "await" /\ SendFailed) => (iter.sensorReconn /\ iter.cobotReconn)

\* C2 amended: a failed send of the verdict is swallowed by enviar_comando_cobot:
\* no exception reaches the loop, no link is reconnected in that iteration and
\* the controller goes straight back to awaiting the signal.
C2_SendErrorSwallowed ==
  SendFailed => /\ pc \in {"await", "finally", "done"}
                /\ iter.raised = "none"
                /\ ~iter.sensorReconn
                /\ ~iter.cobotReconn

C2_Witness == pc = "await" /\ SendFailed

\* C3: in an iteration whose acquisition failed, no verdict is sent, no link is
\* reconnected, and control only goes back to awaiting the signal.
C3_FailedAcquisitionSendsNothing ==
  AcqFailed => /\ iter.sent = "none"
               /\ ~iter.sensorReconn
               /\ ~iter.cobotReconn
               /\ iter.raised = "none"
               /\ pc \in {"decide", "await", "finally", "done"}
               /\ perfil_actual = NoneProfile

C3_Witness == pc = "await" /\ iter.acq \in {"status0", "timeout"} /\ iter.requested

\* C4 as stated: the process never ends after a link-level failure; the only
\* failure that ends it is the master profile.
C4_OnlyMasterFailureEnds ==
  pc = "done" => endedBy \in {"master_missing", "master_unparseable", "interrupt",
                              "interrupt_startup"}

\* C4 amended: no link-level failure inside the inspection cycle ends the
\* process: once the loop has run, only the operator's interrupt leaves it; at
\* start-up the process ends on a master profile that cannot be loaded and also
\* on a failed initial connection.
C4_CycleFailuresNeverEnd ==
  Ended => /\ endedBy \in {"master_missing", "master_unparseable", "connect_failed",
                           "interrupt", "interrupt_startup"}
           /\ (iter # NoIter => endedBy = "interrupt")

C4_Witness == pc = "await" /\ iter.raised = "socket.error" /\ iter.sensorReconn

SensorFaulty ==
  /\ perfilometro.sock # NoneSocket
  /\ \/ ~perfilometro.is_connected
     \/ sockets[perfilometro.sock].net \in {"eof", "reset"}

CobotFaulty ==
  /\ cobot_socket # NoneSocket
  /\ sockets[cobot_socket].net # "conn"

\* C5: whenever a link is faulty during the cycle, the controller eventually
\* invokes a reconnection of that link (or the operator stops the process).
C5_FaultyLinkEventuallyReconnected ==
  /\ (pc \in InCycle /\ SensorFaulty) ~> (iter.sensorReconn \/ Ended)
  /\ (pc \in InCycle /\ CobotFaulty) ~> (iter.cobotReconn \/ Ended)

\* C6 as stated: after an exception in an iteration, a reconnection of the
\* sensor link and one of the cobot link have both been attempted when the
\* controller is back at awaiting the signal.
C6_ExceptionReconnectsBoth ==
  (pc = "await" /\ iter.raised # "none") => (iter.sensorReconn /\ iter.cobotReconn)

\* C6 amended: after an exception in an iteration the controller goes to its
\* catch-all handler, attempts a reconnection of the sensor link, attempts one of
\* the cobot link exactly when the sensor link connected, and resumes awaiting
\* the signal.
C6_ExceptionReconnectsSensorThenCobot ==
  iter.raised # "none"
    => /\ pc \in {"recover", "await", "finally", "done"}
       /\ (pc = "await" => /\ iter.sensorReconn
                           /\ (iter.cobotReconn <=> perfilometro.is_connected))

C6_Witness ==
  pc = "await" /\ iter.raised # "none" /\ iter.sensorReconn /\ ~iter.cobotReconn

\* C7: a receive timeout while awaiting the signal leaves the controller awaiting
\* the signal with the same link objects and sockets, and that iteration
\* performs no acquisition, sends no verdict and reconnects nothing.
C7_TimeoutIsNotAFault ==
  /\ [](iter.signal = "timeout"
          => /\ pc \in {"await", "finally", "done"}
             /\ ~iter.requested /\ iter.acq = "none" /\ iter.sent = "none"
             /\ iter.raised = "none" /\ ~iter.sensorReconn /\ ~iter.cobotReconn)
  /\ [][(pc = "await" /\ iter' # iter /\ iter'.signal = "timeout")
          => /\ pc' = "await"
             /\ perfilometro' = perfilometro
             /\ cobot_socket' = cobot_socket
             /\ sockets' = sockets]_vars

C7_Witness == pc = "await" /\ iter.signal = "timeout"

\* C8: the exit code is non-zero when the master profile could not be loaded,
\* and 0 after a shutdown through the operator's interrupt of the cycle.
C8_ExitCodes ==
  pc = "done"
    => /\ (endedBy \in {"master_missing", "master_unparseable"} => exitCode # 0)
       /\ (endedBy = "interrupt" => exitCode = 0)

\* C9: no socket is created (no connection attempted) unless the master profile
\* was loaded; a process that ended on the master profile made no attempt.
C9_NoConnectBeforeMaster ==
  /\ (Len(sockets) > 0 => perfil_maestro.some)
  /\ ((pc = "done" /\ endedBy \in {"master_missing", "master_unparseable"})
        => sockets = <<>>)

C9_Witness == pc = "done" /\ endedBy = "master_missing" /\ sockets = <<>>

\* C10: when the process has ended, no socket opened by either link is still open.
C10_AllReleasedAtExit ==
  pc = "done" => \A i \in DOMAIN sockets : ~sockets[i].open

\* C11: within an iteration the order is signal, acquire, report: an acquisition
\* happens only after a ready signal received in this iteration and at most once,
\* a verdict is sent only after a successful acquisition of this iteration, and
\* at most one verdict is sent per received signal.
C11_SignalAcquireReport ==
  /\ (pc \in {"acquire", "decide"} => iter.signal = "data")
  /\ (pc = "acquire" => iter.acq = "none" /\ ~iter.requested /\ iter.sends = 0)
  /\ (pc = "decide" => iter.acq # "none" /\ iter.sends = 0)
  /\ (iter.acq # "none" \/ iter.requested => iter.signal = "data")
  /\ (iter.sends > 0 => iter.signal = "data" /\ iter.acq = "ok")
  /\ iter.sends <= 1
  /\ (iter.sends = 0 <=> iter.sent = "none")

C11_Witness ==
  pc = "await" /\ iter.signal = "data" /\ iter.acq = "ok" /\ iter.sends = 1

\* C12: every verdict sent is one of the two fixed tokens, and it is the
\* defective token exactly when comparar_perfiles says defect for the profile
\* that this same iteration acquired.
C12_VerdictMatchesComparison ==
  iter.sent # "none"
    => /\ iter.sent \in {PIEZA_DEFECTUOSA, PIEZA_BUENA}
       /\ iter.perfil.some
       /\ iter.perfil = perfil_actual
       /\ comparar_perfiles(perfil_maestro.val, iter.perfil.val) \in {"True", "False"}
       /\ (iter.sent = PIEZA_DEFECTUOSA
             <=> comparar_perfiles(perfil_maestro.val, iter.perfil.val) = "True")

\* a defective verdict delivered for a profile of the master's length
C12_Witness ==
  /\ pc = "await"
  /\ iter.sent = PIEZA_DEFECTUOSA
  /\ iter.sendOk
  /\ Len(iter.perfil.val) = Len(perfil_maestro.val)

CmpDone == unit.kind = "cmp" /\ unit.phase = "out"

\* C13: for a current and a master profile of unequal length the comparator
\* returns defect, whatever the samples and the tolerance.
C13_UnequalLengthIsDefect ==
  (CmpDone /\ Len(unit.maestro) # Len(unit.actual)) => unit.res = "True"

C13_Witness ==
  CmpDone /\ unit.actual = <<>> /\ Len(unit.maestro) > 0 /\ unit.res = "True"

\* C14: for profiles of equal length the comparator's result does not change
\* when a constant is added to every sample of the current profile, or to every
\* sample of the master profile.
C14_OffsetInvariant ==
  (CmpDone /\ Len(unit.maestro) = Len(unit.actual))
    => /\ unit.resActual = unit.res
       /\ unit.resMaestro = unit.res

\* equal profiles, an offset larger than the tolerance, still good
C14_Witness ==
  /\ CmpDone
  /\ unit.maestro = unit.actual
  /\ Len(unit.actual) > 0
  /\ Abs(unit.c) > unit.umbral
  /\ unit.resActual = "False"

\* len * (deviation at position i of the mean-centred profiles)
DeviationN(a, m, i) == Abs(Len(a) * (a[i] - m[i]) - (Sum(a) - Sum(m)))

\* the largest deviation equals the tolerance
AtTolerance(a, m, t) ==
  /\ \A i \in 1..Len(a) : DeviationN(a, m, i) <= Len(a) * t
  /\ \E i \in 1..Len(a) : DeviationN(a, m, i) = Len(a) * t

\* C15: for profiles of equal length (a master profile is not empty) the
\* comparator returns defect exactly when some mean-centred deviation is
\* strictly greater than the tolerance; a largest deviation equal to the
\* tolerance is good, and so is a current profile equal to the master.
C15_DefectIffDeviationExceeds ==
  (CmpDone /\ Len(unit.maestro) = Len(unit.actual) /\ Len(unit.maestro) >= 1)
    => /\ unit.res \in {"True", "False"}
       /\ (unit.res = "True"
             <=> \E i \in 1..Len(unit.actual) :
                   DeviationN(unit.actual, unit.maestro, i) > Len(unit.actual) * unit.umbral)
       /\ (AtTolerance(unit.actual, unit.maestro, unit.umbral) => unit.res = "False")
       /\ (unit.actual = unit.maestro => unit.res = "False")

\* a largest deviation equal to a positive tolerance
C15_Witness ==
  /\ CmpDone
  /\ Len(unit.maestro) = Len(unit.actual)
  /\ Len(unit.maestro) >= 1
  /\ unit.umbral > 0
  /\ AtTolerance(unit.actual, unit.maestro, unit.umbral)
  /\ unit.res = "False"

RecvDone == unit.kind = "recv" /\ unit.phase = "done"

\* the sensor sent a success response: status 1 and numeric sample tokens
SuccessResponse ==
  /\ unit.status = <<"1">>
  /\ \A i \in 1..Len(unit.tokens) : IsNumber(unit.tokens[i])

\* C17: for a success response, however it is split into partial reads,
\* adquirir_perfil returns exactly the samples of the whole response.
C17_WholeResponseReturned ==
  (RecvDone /\ SuccessResponse)
    => /\ unit.outcome = "ok"
       /\ unit.perfil = Some([i \in 1..Len(unit.tokens) |-> Value(unit.tokens[i])])

SensorReleased ==
  /\ ~perfilometro.is_connected
  /\ (perfilometro.sock # NoneSocket => ~sockets[perfilometro.sock].open)

CobotReleased == cobot_socket # NoneSocket => ~sockets[cobot_socket].open

\* C16: close() and desconectar_todo() can be called in any state, before any
\* connect included; afterwards the link is disconnected with its socket
\* closed, and a second call in a row changes nothing.
C16_CloseIdempotent ==
  (unit.kind = "link" /\ unit.last \in {"close", "desconectar_todo"})
    => /\ SensorReleased
       /\ (unit.last = "desconectar_todo" => CobotReleased)
       /\ (unit.pre.obj.sock = NoneSocket => Links = unit.pre)
       /\ (unit.prev = unit.last => Links = unit.pre)

\* a second close in a row of a link that had been connected
C16_Witness ==
  /\ unit.kind = "link"
  /\ unit.last = "close" /\ unit.prev = "close"
  /\ perfilometro.sock # NoneSocket
  /\ sockets[perfilometro.sock].net = "conn"

\* C19: adquirir_perfil() on a sensor object that is not connected returns
\* None as "not connected", sends no request, and leaves the object and the
\* sockets as they were.
C19_NotConnectedSendsNothing ==
  (unit.kind = "link" /\ unit.last = "adquirir_perfil" /\ ~unit.pre.obj.is_connected)
    => /\ unit.acq = "not_connected"
       /\ ~unit.requested
       /\ unit.perfil = NoneProfile
       /\ Links = unit.pre

\* an acquisition on a link that was connected and then closed
C19_Witness ==
  /\ unit.kind = "link"
  /\ unit.last = "adquirir_perfil" /\ unit.prev = "close"
  /\ unit.acq = "not_connected"
  /\ perfilometro.sock # NoneSocket
  /\ sockets[perfilometro.sock].net = "conn"

\* is_connected is set only on an object whose connect() succeeded and whose
\* socket has not been closed
ConnectedOnlyAfterConnect ==
  perfilometro.is_connected
    => /\ perfilometro.sock # NoneSocket
       /\ sockets[perfilometro.sock].open
       /\ sockets[perfilometro.sock].net # "unconn"

\* C18: the sensor link is connected only after a successful connect, and is
\* disconnected after a failed connect, after close, and after an acquisition
\* that met a transport fault or a close by the peer.
C18_SensorLinkStateMachine ==
  /\ ConnectedOnlyAfterConnect
  /\ (pc = "decide" /\ iter.acq \in {"send_error", "peer_closed"})
       => ~perfilometro.is_connected

\* the open sockets a link has created
OpenSockets(link) == {i \in 1..Len(sockets) : sockets[i].owner = link /\ sockets[i].open}

\* C21: each link has at most one open socket, the one it currently refers to;
\* no socket opened earlier is still open and unreferenced.
C21_OneOpenTransportPerLink ==
  \A link \in {"sensor", "cobot"} :
    /\ Cardinality(OpenSockets(link)) <= 1
    /\ OpenSockets(link) \subseteq {LinkSocket(link)}

====
